---- MODULE Spec2Model ----
(***************************************************************************)
(* Model of gunsim.py: the projectile list, the aim state and main_loop.   *)
(*                                                                         *)
(* Python floats are modelled in fixed point, products truncated toward    *)
(* zero:                                                                   *)
(*   lengths     centimetres        (x, y, WIDTH, GROUND_Y)                *)
(*   velocities  cm/s               (vx, vy, speed, wind)                  *)
(*   times       milliseconds       (dt as clock.tick returns it, time)    *)
(*   angle_deg   hundredths of a degree                                    *)
(*   drag_coef   ten-thousandths                                           *)
(* With dt a multiple of 1000 ms every step of the code except the drag    *)
(* term and the two bounce factors is exact in these units.                *)
(***************************************************************************)
EXTENDS Integers, Sequences, FiniteSets

VARIABLES angle_deg, speed, wind, drag_coef, projectiles,
          running, paused, dt, pc, frames

vars == <<angle_deg, speed, wind, drag_coef, projectiles,
          running, paused, dt, pc, frames>>

aim == <<angle_deg, speed, wind, drag_coef>>

----------------------------------------------------------------------------
(* Bounds of the exploration *)

MaxProj == 2          \* projectiles alive at once
MaxFrames == 3        \* iterations of the while loop explored by Spec
MaxWindSteps == 1     \* |wind| explored up to MaxWindSteps * 10 m/s
MaxIdleFrames == 5    \* iterations of the while loop explored by SpecIdle

\* Values clock.tick(FPS) returns, in ms: a zero tick, a one-second frame
\* and a stalled frame of sixteen seconds.
DtSet == {0, 1000, 16000}

\* Ticks of the session in which no key is held: a zero tick and stalls of
\* two and ten seconds.
DtIdle == {0, 2000, 10000}

\* Ticks of the session left running: zero ticks and stalled frames.
DtLive == {0, 16000}

Keys == {"LEFT", "RIGHT", "UP", "DOWN", "a", "d", "w", "s"}

\* Sets of keys held during one frame: none, each key alone, each pair of
\* opposite keys, and slowing down while the wind is turned against the shot.
KeySets ==
    {{}} \cup {{k} : k \in Keys}
    \cup {{"LEFT", "RIGHT"}, {"UP", "DOWN"}, {"a", "d"}, {"w", "s"}}
    \cup {{"DOWN", "a"}}

----------------------------------------------------------------------------
(* Configuration, gunsim.py lines 10-38 *)

WIDTH == 100000                \* 1000 px = 1000 m
HEIGHT == 60000
GROUND_Y == HEIGHT - 5000
SCALE == 1
GRAVITY == 981                 \* 9.81 m/s^2
launcher_pos == <<5000, GROUND_Y>>

MaxWind == MaxWindSteps * 1000

----------------------------------------------------------------------------
(* Arithmetic *)

Abs(a) == IF a < 0 THEN -a ELSE a
Max(a, b) == IF a >= b THEN a ELSE b
Min(a, b) == IF a <= b THEN a ELSE b

\* a * n / d truncated toward zero (d > 0), without forming |a| * |n| when
\* |a| is large: |a| = q*d + r gives |a|*|n| \div d = q*|n| + (r*|n|) \div d.
MulDiv(a, n, d) ==
    LET s == IF (a < 0) = (n < 0) THEN 1 ELSE -1
        q == Abs(a) \div d
        r == Abs(a) % d
    IN  s * (q * Abs(n) + (r * Abs(n)) \div d)

\* a * dt for dt in ms: (units of a) * seconds
TimesDt(a, t) == MulDiv(a, t, 1000)

\* sin of whole degrees 1..90, times 10000
SinTab == <<175, 349, 523, 698, 872, 1045, 1219, 1392, 1564, 1736, 1908,
  2079, 2250, 2419, 2588, 2756, 2924, 3090, 3256, 3420, 3584, 3746, 3907,
  4067, 4226, 4384, 4540, 4695, 4848, 5000, 5150, 5299, 5446, 5592, 5736,
  5878, 6018, 6157, 6293, 6428, 6561, 6691, 6820, 6947, 7071, 7193, 7314,
  7431, 7547, 7660, 7771, 7880, 7986, 8090, 8192, 8290, 8387, 8480, 8572,
  8660, 8746, 8829, 8910, 8988, 9063, 9135, 9205, 9272, 9336, 9397, 9455,
  9511, 9563, 9613, 9659, 9703, 9744, 9781, 9816, 9848, 9877, 9903, 9925,
  9945, 9962, 9976, 9986, 9994, 9998, 10000>>

SinDeg(d) == IF d <= 0 THEN 0 ELSE IF d >= 90 THEN 10000 ELSE SinTab[d]

\* math.sin(math.radians(a)) * 10000 for a in hundredths of a degree,
\* 0 <= a <= 9000: the table, interpolated linearly between whole degrees.
Sin(a) ==
    LET d == a \div 100
        f == a % 100
    IN  IF f = 0 THEN SinDeg(d)
        ELSE SinDeg(d) + ((SinDeg(d + 1) - SinDeg(d)) * f) \div 100

Cos(a) == Sin(9000 - a)

----------------------------------------------------------------------------
(* reset_sim, spawn_projectile *)

reset_sim == <<>>

\* The dict spawn_projectile builds from the aim state.
NewProjectile(a, s, w) ==
    [x    |-> launcher_pos[1] \div SCALE,
     y    |-> launcher_pos[2] \div SCALE,
     vx   |-> MulDiv(s, Cos(a), 10000) + w,
     vy   |-> -MulDiv(s, Sin(a), 10000),
     time |-> 0]

spawn_projectile(ps, a, s, w) == Append(ps, NewProjectile(a, s, w))

----------------------------------------------------------------------------
(* update_projectiles *)

\* Integrate with the position advanced by the velocity itself, dt forgotten.
Integrate_NoDt(p, t, k) ==
    LET ax  == -MulDiv(k, p.vx, 10000)
        ay  == GRAVITY - MulDiv(k, p.vy, 10000)
        vx1 == p.vx + TimesDt(ax, t)
        vy1 == p.vy + TimesDt(ay, t)
    IN  [x    |-> p.x + vx1 * SCALE,
         y    |-> p.y + vy1 * SCALE,
         vx   |-> vx1,
         vy   |-> vy1,
         time |-> p.time + t]

\* Integrate with gravity added to the vertical velocity a second time.
Integrate_GravityTwice(p, t, k) ==
    LET ax  == -MulDiv(k, p.vx, 10000)
        ay  == GRAVITY - MulDiv(k, p.vy, 10000)
        vx1 == p.vx + TimesDt(ax, t)
        vy1 == p.vy + TimesDt(ay, t) + TimesDt(GRAVITY, t)
    IN  [x    |-> p.x + TimesDt(vx1, t) * SCALE,
         y    |-> p.y + TimesDt(vy1, t) * SCALE,
         vx   |-> vx1,
         vy   |-> vy1,
         time |-> p.time + t]

\* Lines 70-83: semi-implicit Euler, velocity first, then position.
Integrate(p, t, k) ==
    LET ax  == -MulDiv(k, p.vx, 10000)
        ay  == GRAVITY - MulDiv(k, p.vy, 10000)
        vx1 == p.vx + TimesDt(ax, t)
        vy1 == p.vy + TimesDt(ay, t)
    IN  [x    |-> p.x + TimesDt(vx1, t) * SCALE,
         y    |-> p.y + TimesDt(vy1, t) * SCALE,
         vx   |-> vx1,
         vy   |-> vy1,
         time |-> p.time + t]

\* Line 86
HitsGround(q) == q.y >= GROUND_Y

\* Bounce without line 87
Bounce_NoClamp(q) ==
    [q EXCEPT !.vx = MulDiv(q.vx, 25, 100),
              !.vy = -MulDiv(q.vy, 2, 10)]

\* Bounce with line 89 damping but not reversing
Bounce_NoFlip(q) ==
    [q EXCEPT !.y = GROUND_Y,
              !.vx = MulDiv(q.vx, 25, 100),
              !.vy = MulDiv(q.vy, 2, 10)]

\* Lines 87-89
Bounce(q) ==
    [q EXCEPT !.y = GROUND_Y,
              !.vx = MulDiv(q.vx, 25, 100),
              !.vy = -MulDiv(q.vy, 2, 10)]

GroundContact(q) == IF HitsGround(q) THEN Bounce(q) ELSE q

\* One pass of the loop body over one projectile, lines 70-89.
StepOne(p, t, k) == GroundContact(Integrate(p, t, k))

\* Line 91, evaluated on the bounced projectile
Residual(r) == Abs(r.vx) < 50 /\ Abs(r.vy) < 50

\* Line 95
OffOrOld(r) == r.x < -10000 \/ r.x > WIDTH + 10000 \/ r.time > 30000

\* Lines 86-96 without the test of line 91
Marks_NoSettle(q, r) == IF r.x < -10000 \/ r.x > WIDTH + 10000 \/ r.time > 30000
                        THEN <<r>> ELSE <<>>

\* Lines 86-96 with line 95 as the else branch of line 86
Marks_Elif(q, r) ==
    IF q.y >= GROUND_Y
    THEN (IF Abs(r.vx) < 50 /\ Abs(r.vy) < 50 THEN <<r>> ELSE <<>>)
    ELSE (IF r.x < -10000 \/ r.x > WIDTH + 10000 \/ r.time > 30000
          THEN <<r>> ELSE <<>>)

\* What one loop iteration appends to to_remove for projectile p (lines 86-96);
\* r is the projectile after lines 70-89, q after lines 70-83.
Marks(q, r) ==
    (IF HitsGround(q) /\ Residual(r) THEN <<r>> ELSE <<>>)
    \o (IF OffOrOld(r) THEN <<r>> ELSE <<>>)

RECURSIVE ToRemove(_, _, _)
ToRemove(ps, t, k) ==
    IF ps = <<>> THEN <<>>
    ELSE Marks(Integrate(Head(ps), t, k), StepOne(Head(ps), t, k))
         \o ToRemove(Tail(ps), t, k)

Stepped(ps, t, k) == [i \in DOMAIN ps |-> StepOne(ps[i], t, k)]

\* list.remove(p): drop the first entry equal to p
RECURSIVE RemoveFirst(_, _)
RemoveFirst(ps, p) ==
    IF ps = <<>> THEN <<>>
    ELSE IF Head(ps) = p THEN Tail(ps)
    ELSE <<Head(ps)>> \o RemoveFirst(Tail(ps), p)

IsIn(ps, p) == \E i \in DOMAIN ps : ps[i] = p

\* Lines 98-100 with to_remove kept as a set of values: a value marked
\* several times is removed once.
RECURSIVE RemoveMarked_Once(_, _)
RemoveMarked_Once(ps, rem) ==
    IF rem = <<>> THEN ps
    ELSE IF IsIn(Tail(rem), Head(rem))
    THEN RemoveMarked_Once(ps, Tail(rem))
    ELSE RemoveMarked_Once(IF IsIn(ps, Head(rem))
                           THEN RemoveFirst(ps, Head(rem)) ELSE ps,
                           Tail(rem))

\* Lines 98-100
RECURSIVE RemoveMarked(_, _)
RemoveMarked(ps, rem) ==
    IF rem = <<>> THEN ps
    ELSE RemoveMarked(IF IsIn(ps, Head(rem)) THEN RemoveFirst(ps, Head(rem))
                      ELSE ps,
                      Tail(rem))

\* Lines 66-100 with nothing stepped and nothing removed
update_projectiles_Skipped(ps, t, k) == ps

\* Lines 66-100
update_projectiles(ps, t, k) ==
    RemoveMarked(Stepped(ps, t, k), ToRemove(ps, t, k))

----------------------------------------------------------------------------
(* main_loop *)

\* Lines 170-173
KeyAngle(a, held, t) ==
    LET a1 == IF "LEFT" \in held THEN Max(100, a - 3 * t) ELSE a
    IN  IF "RIGHT" \in held THEN Min(8900, a1 + 3 * t) ELSE a1

\* Lines 174-177 without the min of line 175
KeySpeed_NoCeiling(s, held, t) ==
    LET s1 == IF "UP" \in held THEN s + 3 * t ELSE s
    IN  IF "DOWN" \in held THEN Max(100, s1 - 3 * t) ELSE s1

\* Lines 174-177
KeySpeed(s, held, t) ==
    LET s1 == IF "UP" \in held THEN Min(30000, s + 3 * t) ELSE s
    IN  IF "DOWN" \in held THEN Max(100, s1 - 3 * t) ELSE s1

\* Lines 178-181
KeyWind(w, held, t) ==
    LET w1 == IF "a" \in held THEN w - t ELSE w
    IN  IF "d" \in held THEN w1 + t ELSE w1

\* Lines 182-185
KeyDrag(k, held, t) ==
    LET k1 == IF "w" \in held THEN Max(0, k - MulDiv(t, 2, 10)) ELSE k
    IN  IF "s" \in held THEN Min(10000, k1 + MulDiv(t, 2, 10)) ELSE k1

Init ==
    /\ angle_deg = 4500
    /\ speed = 4000
    /\ wind = 0
    /\ drag_coef = 500
    /\ projectiles = <<>>
    /\ running = TRUE
    /\ paused = FALSE
    /\ dt = 0
    /\ pc = "tick"
    /\ frames = 0

\* Lines 153-154: the loop test and clock.tick
TickFrom(D) ==
    /\ pc = "tick"
    /\ running
    /\ \E t \in D : dt' = t
    /\ pc' = "events"
    /\ UNCHANGED <<aim, projectiles, running, paused>>

TickCapped(D, n) ==
    /\ frames < n
    /\ TickFrom(D)
    /\ frames' = frames + 1

Tick == TickCapped(DtSet, MaxFrames)

\* Lines 153, 203-204: the loop ends
Exit ==
    /\ pc = "tick"
    /\ ~running
    /\ pc' = "exit"
    /\ UNCHANGED <<aim, projectiles, running, paused, dt, frames>>

\* Lines 156-160: QUIT or Escape; the for loop goes on with the next event
EventQuit ==
    /\ pc = "events"
    /\ running' = FALSE
    /\ UNCHANGED <<aim, projectiles, paused, dt, pc, frames>>

\* Lines 161-162
EventSpace ==
    /\ pc = "events"
    /\ Len(projectiles) < MaxProj
    /\ projectiles' = spawn_projectile(projectiles, angle_deg, speed, wind)
    /\ UNCHANGED <<aim, running, paused, dt, pc, frames>>

\* Lines 163-164
EventR ==
    /\ pc = "events"
    /\ projectiles' = reset_sim
    /\ UNCHANGED <<aim, running, paused, dt, pc, frames>>

\* Lines 165-166
EventP ==
    /\ pc = "events"
    /\ paused' = ~paused
    /\ UNCHANGED <<aim, projectiles, running, dt, pc, frames>>

\* Line 155: the event queue is drained
EventsDone ==
    /\ pc = "events"
    /\ pc' = "keys"
    /\ UNCHANGED <<aim, projectiles, running, paused, dt, frames>>

\* Lines 169-185
HeldKeysFrom(KS) ==
    /\ pc = "keys"
    /\ \E held \in KS :
         /\ Abs(KeyWind(wind, held, dt)) <= MaxWind
         /\ angle_deg' = KeyAngle(angle_deg, held, dt)
         /\ speed' = KeySpeed(speed, held, dt)
         /\ wind' = KeyWind(wind, held, dt)
         /\ drag_coef' = KeyDrag(drag_coef, held, dt)
    /\ pc' = "update"
    /\ UNCHANGED <<projectiles, running, paused, dt, frames>>

HeldKeys == HeldKeysFrom(KeySets)

\* Lines 187-188 without the test of paused
Update_IgnorePause ==
    /\ pc = "update"
    /\ projectiles' = update_projectiles(projectiles, dt, drag_coef)
    /\ pc' = "tick"
    /\ UNCHANGED <<aim, running, paused, dt, frames>>

\* Lines 187-201: the step, skipped while paused; drawing changes nothing
Update ==
    /\ pc = "update"
    /\ projectiles' = IF ~paused
                        THEN update_projectiles(projectiles, dt, drag_coef)
                        ELSE projectiles
    /\ pc' = "tick"
    /\ UNCHANGED <<aim, running, paused, dt, frames>>

Next ==
    \/ Tick
    \/ Exit
    \/ EventQuit
    \/ EventSpace
    \/ EventR
    \/ EventP
    \/ EventsDone
    \/ HeldKeys
    \/ Update

Spec == Init /\ [][Next]_vars

----------------------------------------------------------------------------
(* Sessions with no key held.  SpecIdle counts its frames like Spec; in    *)
(* SpecLive frames are not counted and the while loop keeps iterating      *)
(* (weak fairness of the loop's steps).                                    *)

NoKeys == HeldKeysFrom({{}})

TickIdle == TickCapped(DtIdle, MaxIdleFrames)

NextIdle ==
    \/ TickIdle
    \/ Exit
    \/ EventQuit
    \/ EventSpace
    \/ EventR
    \/ EventP
    \/ EventsDone
    \/ NoKeys
    \/ Update

SpecIdle == Init /\ [][NextIdle]_vars

TickLive ==
    /\ TickFrom(DtLive)
    /\ UNCHANGED frames

NextLive ==
    \/ TickLive
    \/ Exit
    \/ EventQuit
    \/ EventSpace
    \/ EventR
    \/ EventP
    \/ EventsDone
    \/ NoKeys
    \/ Update

SpecLive == Init /\ [][NextLive]_vars /\ WF_vars(NextLive)

----------------------------------------------------------------------------
(* Properties *)

\* The loop is about to call update_projectiles(dt): from such a state the
\* only step is Update, and it runs the call.
Stepping == pc = "update" /\ ~paused

\* update_projectiles(dt) has just returned in this frame.
Stepped1 == pc = "tick" /\ frames >= 1 /\ ~paused

InFlight(ps) == SelectSeq(ps, LAMBDA p : p.y < GROUND_Y)

\* C1 as claimed: update_projectiles(0) leaves every projectile's x, y, vx,
\* vy and lifetime unchanged, the ones at ground level included.
C1_Original ==
    [][(Stepping /\ dt = 0) => projectiles' = projectiles]_vars

C1_Expect(p) ==
    IF p.y < GROUND_Y THEN p
    ELSE [p EXCEPT !.vx = MulDiv(p.vx, 25, 100), !.vy = -MulDiv(p.vy, 2, 10)]

C1_Kept(r) == r.y < GROUND_Y \/ Abs(r.vx) >= 50 \/ Abs(r.vy) >= 50

\* C1 amended: update_projectiles(0) leaves x, y and lifetime of every
\* projectile unchanged and leaves a projectile above the ground (y <
\* GROUND_Y) unchanged and live; a projectile at y = GROUND_Y gets the ground
\* rule (vx * 0.25, vy * -0.2) and is removed when both are then under 0.5.
C1_ZeroStep ==
    [][(Stepping /\ dt = 0) =>
        projectiles' =
            SelectSeq([i \in DOMAIN projectiles |-> C1_Expect(projectiles[i])],
                      C1_Kept)]_vars

\* A zero step has run over a projectile in flight and a fresh one.
C1_Witness ==
    /\ Stepped1 /\ dt = 0
    /\ \E i \in DOMAIN projectiles :
         projectiles[i].y < GROUND_Y /\ projectiles[i].time > 0
    /\ \E i \in DOMAIN projectiles :
         /\ projectiles[i].y = GROUND_Y /\ projectiles[i].time = 0
         /\ projectiles[i].vy > 0

C2_SmallAtStart(p) == p.y = GROUND_Y /\ Abs(p.vx) < 50 /\ Abs(p.vy) < 50

\* C2 as claimed: a projectile at ground level with |vx| < 0.5 and |vy| < 0.5
\* at the start of a step is not live when that update_projectiles returns.
C2_Original ==
    [][Stepping =>
        \A i \in DOMAIN projectiles :
            C2_SmallAtStart(projectiles[i]) =>
                ~IsIn(projectiles', StepOne(projectiles[i], dt, drag_coef))]_vars

\* C2 amended: a projectile that after this step's integration and ground
\* rule is at ground level with |vx| < 0.5 and |vy| < 0.5 is not live when
\* update_projectiles returns, for every dt >= 0 and drag in [0, 1].
C2_Settling ==
    [][Stepping =>
        \A j \in DOMAIN projectiles' :
            ~C2_SmallAtStart(projectiles'[j])]_vars

\* A projectile that was not small at the start of the step comes to rest in
\* it, on screen and younger than 30 s, so that it is removed for that alone.
C2_Witness ==
    /\ Stepping
    /\ \E i \in DOMAIN projectiles :
         LET r == StepOne(projectiles[i], dt, drag_coef)
         IN  /\ ~C2_SmallAtStart(projectiles[i])
             /\ C2_SmallAtStart(r)
             /\ r.x >= -10000 /\ r.x <= WIDTH + 10000
             /\ r.time <= 30000

\* C3: every live projectile has y <= GROUND_Y in every state.
C3_BelowGround ==
    \A i \in DOMAIN projectiles : projectiles[i].y <= GROUND_Y

\* A step is about to integrate a projectile to below the ground line.
C3_Witness ==
    /\ Stepping
    /\ \E i \in DOMAIN projectiles :
         /\ Integrate(projectiles[i], dt, drag_coef).y > GROUND_Y
         /\ IsIn(update_projectiles(projectiles, dt, drag_coef),
                 StepOne(projectiles[i], dt, drag_coef))

C4_Rule(q, r) ==
    IF q.y >= GROUND_Y
    THEN /\ r.y = GROUND_Y /\ r.x = q.x /\ r.time = q.time
         /\ Abs(4 * r.vx - q.vx) < 4
         /\ (q.vx >= 0 => r.vx >= 0) /\ (q.vx <= 0 => r.vx <= 0)
         /\ Abs(5 * r.vy + q.vy) < 5
         /\ (q.vy >= 0 => r.vy <= 0) /\ (q.vy <= 0 => r.vy >= 0)
    ELSE r = q

\* C4: after a step every live projectile is the integrated state of one of
\* the projectiles before it, with, when the integrated y >= GROUND_Y, y set
\* to GROUND_Y, vx a quarter of the integrated vx and vy minus a fifth of the
\* integrated vy (opposite sign or zero), and nothing changed otherwise.
C4_GroundRule ==
    [][Stepping =>
        \A j \in DOMAIN projectiles' :
            \E i \in DOMAIN projectiles :
                C4_Rule(Integrate(projectiles[i], dt, drag_coef),
                        projectiles'[j])]_vars

\* A projectile that bounced in an earlier step bounces again and stays
\* live, next to one that stays in flight.
C4_Witness ==
    /\ Stepping /\ dt > 0
    /\ \E i \in DOMAIN projectiles :
         LET q == Integrate(projectiles[i], dt, drag_coef)
         IN  /\ projectiles[i].y = GROUND_Y /\ projectiles[i].time > 0
             /\ q.y > GROUND_Y /\ q.vy > 0 /\ q.vx # 0
             /\ IsIn(update_projectiles(projectiles, dt, drag_coef),
                     GroundContact(q))
    /\ \E i \in DOMAIN projectiles :
         Integrate(projectiles[i], dt, drag_coef).y < GROUND_Y

\* C5: when update_projectiles returns no live projectile has x < -100,
\* x > WIDTH + 100 or lifetime > 30.
C5_Culling ==
    [][Stepping =>
        \A j \in DOMAIN projectiles' :
            /\ projectiles'[j].x >= -10000
            /\ projectiles'[j].x <= WIDTH + 10000
            /\ projectiles'[j].time <= 30000]_vars

\* One projectile leaves the playfield in flight while another outlives 30 s
\* in the step in which it touches the ground.
C5_Witness ==
    /\ Stepping
    /\ \E i \in DOMAIN projectiles :
         LET q == Integrate(projectiles[i], dt, drag_coef)
         IN  q.y < GROUND_Y /\ q.time <= 30000
             /\ (q.x > WIDTH + 10000 \/ q.x < -10000)
    /\ \E i \in DOMAIN projectiles :
         LET q == Integrate(projectiles[i], dt, drag_coef)
         IN  /\ q.y >= GROUND_Y /\ q.time > 30000
             /\ q.x >= -10000 /\ q.x <= WIDTH + 10000
             /\ Abs(GroundContact(q).vy) >= 50

C6_Free(p, r) ==
    /\ r.time = p.time + dt
    /\ r.vx = p.vx
    /\ r.vy = p.vy + TimesDt(GRAVITY, dt)

\* C6 as claimed: with drag 0 every projectile live after a step has the vx
\* it had before it and its vy increased by gravity * dt.
C6_Original ==
    [][(Stepping /\ drag_coef = 0) =>
        \A j \in DOMAIN projectiles' :
            \E i \in DOMAIN projectiles :
                C6_Free(projectiles[i], projectiles'[j])]_vars

\* C6 amended: with drag 0, a projectile that is live after a step and did
\* not touch the ground in it (y < GROUND_Y after integration) has the vx it
\* had before and its vy increased by gravity * dt; over n such steps of the
\* same dt, vx(n) = vx(0) and vy(n) = vy(0) + n * gravity * dt.
C6_NoDrag ==
    [][(Stepping /\ drag_coef = 0) =>
        \A j \in DOMAIN projectiles' :
            projectiles'[j].y < GROUND_Y =>
                \E i \in DOMAIN projectiles :
                    C6_Free(projectiles[i], projectiles'[j])]_vars

\* Two one-second steps without drag after the spawn, the aim not touched.
C6_Witness ==
    /\ Stepped1 /\ dt = 1000 /\ drag_coef = 0
    /\ \E i \in DOMAIN projectiles :
         LET p0 == NewProjectile(angle_deg, speed, wind)
         IN  /\ projectiles[i].y < GROUND_Y
             /\ projectiles[i].time = 2000
             /\ projectiles[i].vx = p0.vx
             /\ projectiles[i].vy = p0.vy + 2 * GRAVITY

\* C7: a paused frame does not call update_projectiles: the projectiles
\* change only in the event loop (by a spawn or a reset) or in an unpaused
\* update, and toggling pause changes none.
C7_Pause ==
    [][/\ (pc = "update" /\ paused) => projectiles' = projectiles
       /\ paused' # paused => projectiles' = projectiles
       /\ projectiles' # projectiles =>
            \/ pc = "update" /\ ~paused
            \/ pc = "events" /\ projectiles' = <<>>
            \/ /\ pc = "events"
               /\ Len(projectiles') = Len(projectiles) + 1
               /\ SubSeq(projectiles', 1, Len(projectiles)) = projectiles]_vars

\* A paused frame with dt > 0 has passed over a projectile in flight.
C7_Witness ==
    /\ pc = "tick" /\ frames >= 2 /\ paused /\ dt > 0
    /\ \E i \in DOMAIN projectiles :
         projectiles[i].y < GROUND_Y /\ projectiles[i].time > 0

\* C8: angle stays in [1, 89], speed in [1, 300], drag in [0, 1]; wind is
\* not clamped: a step moves it by exactly -10 dt, 0 or +10 dt.
C8_AimBounds ==
    /\ [](/\ angle_deg >= 100 /\ angle_deg <= 8900
          /\ speed >= 100 /\ speed <= 30000
          /\ drag_coef >= 0 /\ drag_coef <= 10000)
    /\ [][wind' \in {wind - dt, wind, wind + dt}]_vars

\* Three clamps have acted.
C8_Witness ==
    /\ angle_deg = 8900 /\ speed = 100 /\ drag_coef = 0
    /\ pc = "update"

C9_Stays(r) ==
    ~ \/ r.y = GROUND_Y /\ Abs(r.vx) < 50 /\ Abs(r.vy) < 50
      \/ r.x < -10000
      \/ r.x > WIDTH + 10000
      \/ r.time > 30000

\* C9: one update_projectiles call removes exactly the projectiles that,
\* after integration and the ground rule, are settled at ground level, off
\* the playfield or older than 30 s, and keeps the others in order.
C9_ExactRemoval ==
    [][Stepping =>
        projectiles' =
            SelectSeq(Stepped(projectiles, dt, drag_coef), C9_Stays)]_vars

\* Two projectiles of identical state are about to be removed, each of them
\* both settled and older than 30 s, so that to_remove lists four entries.
C9_Witness ==
    /\ Stepping
    /\ Len(projectiles) = 2
    /\ projectiles[1] = projectiles[2]
    /\ LET r == StepOne(projectiles[1], dt, drag_coef)
       IN  /\ r.y = GROUND_Y /\ Abs(r.vx) < 50 /\ Abs(r.vy) < 50
           /\ r.time > 30000
    /\ Len(ToRemove(projectiles, dt, drag_coef)) = 4

\* C10: if unpaused steps with dt > 0 keep coming and spawning stops, the
\* live set becomes and stays empty; no projectile is live with a lifetime
\* over 30 s; a step with dt = 0 removes no projectile that is in flight.
C10_EventualRemoval ==
    /\ ([]<>(Stepping /\ dt > 0) /\ <>[][~EventSpace]_vars)
           => <>[](projectiles = <<>>)
    /\ [](\A i \in DOMAIN projectiles : projectiles[i].time <= 30000)
    /\ [][(Stepping /\ dt = 0) =>
            InFlight(projectiles') = InFlight(projectiles)]_vars

\* A projectile is about to be removed for its lifetime alone.
C10_Witness ==
    /\ Stepping /\ dt > 0
    /\ \E i \in DOMAIN projectiles :
         LET r == StepOne(projectiles[i], dt, drag_coef)
         IN  /\ r.time > 30000
             /\ r.x >= -10000 /\ r.x <= WIDTH + 10000
             /\ ~(Abs(r.vx) < 50 /\ Abs(r.vy) < 50)

====
